---- MODULE Spec2Model ----
(***************************************************************************)
(* Model of the move-forecast repository:                                  *)
(*   - precompute_percentages.py : the batch job that fills the            *)
(*     historical_percentages table, with its checkpoint file;             *)
(*   - main.py : fetch_historical_percentages and forecast_move.           *)
(* Percentages are exact rationals <<numerator, denominator>>; binary      *)
(* floating-point rounding error is outside the model.                     *)
(***************************************************************************)
EXTENDS Integers, Sequences, FiniteSets, TLC

VARIABLES
    \* ---- the database and the file system ---------------------------------
    historical_percentages, \* set of rows of the table
    table_exists,           \* the table is present in the schema
    checkpoint_file,        \* content of checkpoint.json, NoFile when absent
    db,                     \* index of the source data set stored in the database
    \* ---- one run of precompute_percentages.py -----------------------------
    pc,                     \* position of the script
    loaded,                 \* index of the data set read by this run (0: none)
    batch,                  \* the in-memory batch (sequence of rows)
    skip_until,
    start,                  \* start_branch, start_move_type, start_month, start_day
    initial_progress,
    pos,                    \* loop variables <<branch ix, move_type ix, month, day>>
    \* ---- bookkeeping of the runs ------------------------------------------
    runs, crashes, failures,
    insert_failed,          \* a batch insert of this run failed
    resumed,                \* this run found a checkpoint on disk
    prev_run,               \* the previous run, when it ran to completion
    \* ---- a second instance of the script, on the same database and directory
    peer,                   \* its position and memory while the other instance steps
    \* ---- the forecast service (main.py) -------------------------------------
    fpc,                    \* position inside forecast_endpoint / forecast_move
    req,                    \* the request: date, branch, move_type
    today,                  \* datetime.now().date(), as a day number
    model_cache,            \* branches that have a pickled predictor
    rng,                    \* hidden state of the random module
    window,                 \* <<start_date, end_date>>
    forecast,               \* the frame of rows Date, Count
    percentage,
    predicted_summary,
    totals,                 \* <<total_predicted_moves, total_branch_forecast>>
    historical_period,      \* step 8: <<sum, length>> of the list historical_percentages
    response,               \* what forecast_endpoint answers
    last_lookup,            \* the latest call of fetch_historical_percentages
    store_failures          \* lookups that met a store error

aggVars == <<historical_percentages, table_exists, checkpoint_file, db, pc, loaded,
             batch, skip_until, start, initial_progress, pos, runs, crashes,
             failures, insert_failed, resumed, prev_run, peer>>
fcVars  == <<fpc, req, today, model_cache, rng, window, forecast, percentage,
             predicted_summary, totals, historical_period, response, last_lookup,
             store_failures>>
vars    == <<aggVars, fcVars>>

\* ---------------------------------------------------------------------------
\* Bounds of the model
\* ---------------------------------------------------------------------------
\* batch_size is 1000 in precompute_percentages.py:142; the model scales it so
\* that batches fill up on the small data sets below.
batch_size  == 2
MaxRuns     == 3     \* runs of the batch job in one behaviour
MaxCrashes  == 1     \* interrupted runs in one behaviour
MaxFailures == 1     \* failing batch inserts in one behaviour
MaxStoreFailures == 1 \* percentage lookups of one request that meet a store error

\* ---------------------------------------------------------------------------
\* Names and their order (Python's str comparison inside sorted())
\* ---------------------------------------------------------------------------
NameOrder == <<"Austin", "Boston", "Corporate", "Labor", "Local", "Waco">>

RECURSIVE SumSeq(_)
SumSeq(s) == IF s = <<>> THEN 0 ELSE Head(s) + SumSeq(Tail(s))

RECURSIVE SetToSeq(_)
SetToSeq(S) == IF S = {} THEN <<>>
               ELSE LET x == CHOOSE y \in S : TRUE IN <<x>> \o SetToSeq(S \ {x})

Min(a, b) == IF a <= b THEN a ELSE b

\* sorted(df[col].unique())
sorted(S) == SelectSeq(NameOrder, LAMBDA n : n \in S)

\* ---------------------------------------------------------------------------
\* Rationals
\* ---------------------------------------------------------------------------
RECURSIVE GCD(_, _)
GCD(a, b) == IF b = 0 THEN a ELSE GCD(b, a % b)

Abs(x) == IF x < 0 THEN -x ELSE x

Rat(n, d) == LET g == GCD(Abs(n), d) IN <<n \div g, d \div g>>
RatAdd(p, q) == Rat(p[1] * q[2] + q[1] * p[2], p[2] * q[2])
RatSub(p, q) == Rat(p[1] * q[2] - q[1] * p[2], p[2] * q[2])
RatLE(p, q)  == p[1] * q[2] <= q[1] * p[2]
RatLT(p, q)  == p[1] * q[2] <  q[1] * p[2]
RatAbs(p)    == <<Abs(p[1]), p[2]>>

\* Python 3 round() and numpy round(): halves go to the even neighbour.
\* n >= 0, d > 0.
round(n, d) ==
    LET q == n \div d
        r == n % d
    IN  IF 2 * r < d THEN q
        ELSE IF 2 * r > d THEN q + 1
        ELSE IF q % 2 = 0 THEN q ELSE q + 1

\* ---------------------------------------------------------------------------
\* Calendar
\* ---------------------------------------------------------------------------
IsLeap(y) == y % 4 = 0 /\ (y % 100 # 0 \/ y % 400 = 0)

DaysInMonth(y, m) ==
    IF m = 2 THEN (IF IsLeap(y) THEN 29 ELSE 28)
    ELSE IF m \in {4, 6, 9, 11} THEN 30 ELSE 31

\* pd.to_datetime(f'{y}-{m:02d}-{d:02d}', errors='coerce') is not NaT
IsDate(y, m, d) == m \in 1..12 /\ d >= 1 /\ d <= DaysInMonth(y, m)

\* Line 191: the validity test of the batch job, on the non-leap year 2021
isValidDayLeap(month, day) == IsDate(2024, month, day)
isValidDay(month, day) == IsDate(2021, month, day)

\* ---------------------------------------------------------------------------
\* Source data: the rows of move_df and historical_df for 2021..2024
\* ---------------------------------------------------------------------------
M(y, m, d, b, t, c) == [Date |-> <<y, m, d>>, Branch |-> b, MoveType |-> t, Count |-> c]
H(y, m, d, b, c)    == [Date |-> <<y, m, d>>, Branch |-> b, Count |-> c]

DataSets == <<
    \* 1: one branch, one move type; batches end on Jan 31 and on Mar 2, one
    \*    row is left for the final batch; Feb 29 2024 has records
    [ move_df |-> { M(2021, 1, 30, "Austin", "Local", 5), M(2021, 1, 31, "Austin", "Local", 1),
                    M(2022, 1, 31, "Austin", "Local", 1), M(2024, 2, 29, "Austin", "Local", 5),
                    M(2021, 3, 1, "Austin", "Local", 8),  M(2023, 3, 2, "Austin", "Local", 1) },
      historical_df |-> { H(2021, 1, 30, "Austin", 10), H(2021, 1, 31, "Austin", 4),
                          H(2022, 1, 31, "Austin", 4),  H(2024, 2, 29, "Austin", 5),
                          H(2021, 3, 1, "Austin", 8),   H(2023, 3, 2, "Austin", 2),
                          H(2021, 12, 31, "Austin", 3) } ],
    \* 2: the same branch with other counts, and a day whose total is 0
    [ move_df |-> { M(2021, 1, 30, "Austin", "Local", 2), M(2021, 3, 1, "Austin", "Local", 4),
                    M(2022, 6, 15, "Austin", "Local", 0) },
      historical_df |-> { H(2021, 1, 30, "Austin", 10), H(2021, 3, 1, "Austin", 8),
                          H(2022, 6, 15, "Austin", 0),  H(2021, 4, 30, "Austin", 6) } ],
    \* 3: two move types, one of them without records on Apr 30
    [ move_df |-> { M(2021, 2, 28, "Austin", "Local", 3), M(2021, 2, 28, "Austin", "Labor", 1),
                    M(2021, 4, 30, "Austin", "Labor", 2) },
      historical_df |-> { H(2021, 2, 28, "Austin", 4), H(2021, 4, 30, "Austin", 6),
                          H(2021, 7, 31, "Austin", 2) } ],
    \* 4: an empty category extract
    [ move_df |-> {}, historical_df |-> { H(2021, 1, 30, "Austin", 10) } ]
>>

move_df(k)       == DataSets[k].move_df
historical_df(k) == DataSets[k].historical_df

RECURSIVE SumCount(_)
SumCount(S) == IF S = {} THEN 0
               ELSE LET r == CHOOSE x \in S : TRUE IN r.Count + SumCount(S \ {r})

\* Lines 134-135: groupby(...)['Count'].sum().reset_index()
move_grouped == [k \in DOMAIN DataSets |->
    LET keys == { <<r.Branch, r.MoveType, r.Date[2], r.Date[3]>> : r \in move_df(k) }
    IN  { [Branch |-> key[1], MoveType |-> key[2], Month |-> key[3], Day |-> key[4],
           Count |-> SumCount({ r \in move_df(k) :
                        <<r.Branch, r.MoveType, r.Date[2], r.Date[3]>> = key })] : key \in keys }]

historical_grouped == [k \in DOMAIN DataSets |->
    LET keys == { <<r.Branch, r.Date[2], r.Date[3]>> : r \in historical_df(k) }
    IN  { [Branch |-> key[1], Month |-> key[2], Day |-> key[3],
           Count |-> SumCount({ r \in historical_df(k) :
                        <<r.Branch, r.Date[2], r.Date[3]>> = key })] : key \in keys }]

\* Lines 196-201 and 203-207
move_count(k, branch, move_type, month, day) ==
    SumCount({ g \in move_grouped[k] : g.Branch = branch /\ g.MoveType = move_type
                                       /\ g.Month = month /\ g.Day = day })

total_count_floor(k, branch, month, day) ==
    LET n == SumCount({ g \in historical_grouped[k] : g.Branch = branch /\ g.Month = month
                                                      /\ g.Day = day })
    IN  IF n > 0 THEN n ELSE 1
total_count(k, branch, month, day) ==
    SumCount({ g \in historical_grouped[k] : g.Branch = branch /\ g.Month = month
                                             /\ g.Day = day })

\* Line 210
avg_percentage(k, branch, move_type, month, day) ==
    Rat(100 * move_count(k, branch, move_type, month, day), total_count(k, branch, month, day))

\* Lines 155-157
branches   == [k \in DOMAIN DataSets |-> sorted({ r.Branch : r \in move_df(k) })]
move_types == [k \in DOMAIN DataSets |-> sorted({ r.MoveType : r \in move_df(k) })]
total_iterations(k) == Len(branches[k]) * Len(move_types[k]) * 12 * 31

\* ---------------------------------------------------------------------------
\* The table and the checkpoint file
\* ---------------------------------------------------------------------------
Row(b, t, m, d, p) == [branch |-> b, move_type |-> t, month |-> m, day |-> d,
                       avg_percentage |-> p]
Key(r) == <<r.branch, r.move_type, r.month, r.day>>

\* INSERT ... ON CONFLICT (branch, move_type, month, day) DO UPDATE
Upsert(table, row) == { r \in table : Key(r) # Key(row) } \cup {row}

\* cursor.executemany over the batch
RECURSIVE executemany(_, _)
executemany(table, rows) ==
    IF rows = <<>> THEN table ELSE executemany(Upsert(table, Head(rows)), Tail(rows))

None   == "<None>"
NoFile == [exists |-> FALSE]

\* Lines 82-86
load_checkpoint ==
    IF checkpoint_file.exists
    THEN [branch |-> checkpoint_file.branch, move_type |-> checkpoint_file.move_type,
          month |-> checkpoint_file.month, day |-> checkpoint_file.day]
    ELSE [branch |-> None, move_type |-> None, month |-> 1, day |-> 1]

\* Lines 89-91
save_checkpoint(branch, move_type, month, day) ==
    [exists |-> TRUE, branch |-> branch, move_type |-> move_type, month |-> month,
     day |-> day]

\* ---------------------------------------------------------------------------
\* The enumeration (lines 178-181) and the initial progress loop (lines 159-173)
\* ---------------------------------------------------------------------------
End == <<0, 0, 0, 0>>

\* The loop variables after one more iteration of the nested for loops
NextPos(k, p) ==
    IF p[4] < 31 THEN <<p[1], p[2], p[3], p[4] + 1>>
    ELSE IF p[3] < 12 THEN <<p[1], p[2], p[3] + 1, 1>>
    ELSE IF p[2] < Len(move_types[k]) THEN <<p[1], p[2] + 1, 1, 1>>
    ELSE IF p[1] < Len(branches[k]) THEN <<p[1] + 1, 1, 1, 1>>
    ELSE End

Combination(k, p) == [branch |-> branches[k][p[1]], move_type |-> move_types[k][p[2]],
                      month |-> p[3], day |-> p[4]]

Enumerated(k) == { <<b, t, m, d>> : b \in 1..Len(branches[k]), t \in 1..Len(move_types[k]),
                                    m \in 1..12, d \in 1..31 }

\* Number of combinations enumerated before p
Before(k, p) == (((p[1] - 1) * Len(move_types[k]) + (p[2] - 1)) * 12 + (p[3] - 1)) * 31
                + (p[4] - 1)

\* Lines 152-173: skip_until and initial_progress at the start of the main loop.
\* The counting loop clears skip_until when it meets the checkpoint.
InitialProgress(k, st) ==
    LET hits == { p \in Enumerated(k) : Combination(k, p) = st }
    IN  IF st.branch = None THEN [skip_until |-> FALSE, initial_progress |-> 0]
        ELSE IF hits = {}
             THEN [skip_until |-> TRUE, initial_progress |-> total_iterations(k)]
             ELSE [skip_until |-> FALSE,
                   initial_progress |-> Before(k, CHOOSE p \in hits : TRUE)]

\* ---------------------------------------------------------------------------
\* Initial values
\* ---------------------------------------------------------------------------
NoStart == [branch |-> None, move_type |-> None, month |-> 1, day |-> 1]
NoPrev  == [complete |-> FALSE]
NoReq    == [date |-> <<>>, branch |-> None, move_type |-> None]
NoLookup == [called |-> FALSE]
NoAnswer == [status_code |-> 0]

FcIdle ==
    /\ fpc = "off"
    /\ req = NoReq
    /\ today = 0
    /\ model_cache = {}
    /\ rng = 0
    /\ window = <<0, 0>>
    /\ forecast = <<>>
    /\ percentage = <<0, 1>>
    /\ predicted_summary = <<>>
    /\ totals = <<0, 0>>
    /\ historical_period = <<<<0, 1>>, 0>>
    /\ response = NoAnswer
    /\ last_lookup = NoLookup
    /\ store_failures = 0

\* The memory of an instance of the script: its position and its local variables
Process == [pc |-> pc, loaded |-> loaded, batch |-> batch, skip_until |-> skip_until,
            start |-> start, initial_progress |-> initial_progress, pos |-> pos,
            insert_failed |-> insert_failed, resumed |-> resumed]

NotStarted == [pc |-> "idle", loaded |-> 0, batch |-> <<>>, skip_until |-> FALSE,
               start |-> NoStart, initial_progress |-> 0, pos |-> End,
               insert_failed |-> FALSE, resumed |-> FALSE]

ProcessIdle ==
    /\ loaded = 0
    /\ batch = <<>>
    /\ skip_until = FALSE
    /\ start = NoStart
    /\ initial_progress = 0
    /\ pos = End

Init ==
    /\ historical_percentages = {}
    /\ table_exists = FALSE
    /\ checkpoint_file = NoFile
    /\ db \in DOMAIN DataSets
    /\ pc = "idle"
    /\ ProcessIdle
    /\ runs = 0 /\ crashes = 0 /\ failures = 0
    /\ insert_failed = FALSE
    /\ resumed = FALSE
    /\ prev_run = NoPrev
    /\ peer = NotStarted
    /\ FcIdle

Stopped == pc \in {"idle", "done", "aborted"}
Running == pc \in {"load", "checkpoint", "loop", "drain", "cleanup"}

\* ---------------------------------------------------------------------------
\* precompute_percentages.py, top to bottom
\* ---------------------------------------------------------------------------
\* Lines 44-66: a table with rows is reused as it is; an empty one is dropped and
\* created again, a missing one is created
table_rebuilt(table) == {}
table_at_start(table) == IF table # {} THEN table ELSE {}

\* Lines 26-79: connect, reuse the table when it has rows, else (re)create it
StartRun ==
    /\ Stopped
    /\ runs < MaxRuns
    /\ runs' = runs + 1
    /\ table_exists' = TRUE
    /\ pc' = "load"
    /\ loaded' = 0 /\ batch' = <<>> /\ skip_until' = FALSE /\ start' = NoStart
    /\ initial_progress' = 0 /\ pos' = End
    /\ insert_failed' = FALSE
    /\ resumed' = FALSE
    /\ prev_run' = IF pc = "done"
                   THEN [complete |-> TRUE, data |-> loaded, insert_failed |-> insert_failed,
                         table |-> historical_percentages]
                   ELSE NoPrev
    /\ historical_percentages' = table_at_start(historical_percentages)
    /\ UNCHANGED <<checkpoint_file, db, crashes, failures>>
    /\ UNCHANGED <<peer, fcVars>>

\* Lines 93-107: a read_sql_query raises
LoadFails ==
    /\ pc = "load"
    /\ pc' = "aborted"
    /\ UNCHANGED <<historical_percentages, table_exists, checkpoint_file, db, loaded, batch,
                   skip_until, start, initial_progress, pos, runs, crashes, failures,
                   insert_failed, resumed, prev_run>>
    /\ UNCHANGED <<peer, fcVars>>

\* Lines 109-117: one of the two frames is empty
LoadEmpty ==
    /\ pc = "load"
    /\ (historical_df(db) = {} \/ move_df(db) = {})
    /\ pc' = "aborted"
    /\ UNCHANGED <<historical_percentages, table_exists, checkpoint_file, db, loaded, batch,
                   skip_until, start, initial_progress, pos, runs, crashes, failures,
                   insert_failed, resumed, prev_run>>
    /\ UNCHANGED <<peer, fcVars>>

\* Lines 93-139: both frames are read, validated and grouped
LoadData ==
    /\ pc = "load"
    /\ historical_df(db) # {} /\ move_df(db) # {}
    /\ loaded' = db
    /\ pc' = "checkpoint"
    /\ UNCHANGED <<historical_percentages, table_exists, checkpoint_file, db, batch,
                   skip_until, start, initial_progress, pos, runs, crashes, failures,
                   insert_failed, resumed, prev_run>>
    /\ UNCHANGED <<peer, fcVars>>

\* Lines 141-176: the checkpoint is read and the initial progress is counted
LoadCheckpoint ==
    /\ pc = "checkpoint"
    /\ start' = load_checkpoint
    /\ LET ip == InitialProgress(loaded, load_checkpoint)
       IN  /\ skip_until' = ip.skip_until
           /\ initial_progress' = ip.initial_progress
    /\ resumed' = checkpoint_file.exists
    /\ batch' = <<>>
    /\ pos' = <<1, 1, 1, 1>>
    /\ pc' = "loop"
    /\ UNCHANGED <<historical_percentages, table_exists, checkpoint_file, db, loaded,
                   runs, crashes, failures, insert_failed, prev_run>>
    /\ UNCHANGED <<peer, fcVars>>

\* The end of one iteration of the nested loops
Advance ==
    /\ pos' = NextPos(loaded, pos)
    /\ pc' = IF NextPos(loaded, pos) = End THEN "drain" ELSE "loop"

Cur == Combination(loaded, pos)

\* Lines 183-187
LoopSkip ==
    /\ pc = "loop"
    /\ skip_until
    /\ skip_until' = IF Cur = start THEN FALSE ELSE skip_until
    /\ Advance
    /\ UNCHANGED <<historical_percentages, table_exists, checkpoint_file, db, loaded, batch,
                   start, initial_progress, runs, crashes, failures, insert_failed,
                   resumed, prev_run>>
    /\ UNCHANGED <<peer, fcVars>>

\* Lines 190-193
LoopInvalidDate ==
    /\ pc = "loop"
    /\ ~skip_until
    /\ ~isValidDay(Cur.month, Cur.day)
    /\ Advance
    /\ UNCHANGED <<historical_percentages, table_exists, checkpoint_file, db, loaded, batch,
                   skip_until, start, initial_progress, runs, crashes, failures,
                   insert_failed, resumed, prev_run>>
    /\ UNCHANGED <<peer, fcVars>>

\* Lines 195-209, 212-215
LoopZeroTotal ==
    /\ pc = "loop"
    /\ ~skip_until
    /\ isValidDay(Cur.month, Cur.day)
    /\ ~(total_count(loaded, Cur.branch, Cur.month, Cur.day) > 0)
    /\ Advance
    /\ UNCHANGED <<historical_percentages, table_exists, checkpoint_file, db, loaded, batch,
                   skip_until, start, initial_progress, runs, crashes, failures,
                   insert_failed, resumed, prev_run>>
    /\ UNCHANGED <<peer, fcVars>>

\* Line 211: the batch after the append
Appended == Append(batch, Row(Cur.branch, Cur.move_type, Cur.month, Cur.day,
                avg_percentage(loaded, Cur.branch, Cur.move_type, Cur.month, Cur.day)))

Computes ==
    /\ pc = "loop"
    /\ ~skip_until
    /\ isValidDay(Cur.month, Cur.day)
    /\ total_count(loaded, Cur.branch, Cur.month, Cur.day) > 0

\* Line 218
batchFull(rows) == Len(rows) >= batch_size

\* Line 229 (and 237): the checkpoint written for the current combination
checkpointAfter(c) == save_checkpoint(c.branch, c.move_type, c.month, c.day + 1)

\* Lines 195-211, 218: the row is appended, the batch is not full yet
LoopAppend ==
    /\ Computes
    /\ ~batchFull(Appended)
    /\ batch' = Appended
    /\ Advance
    /\ UNCHANGED <<historical_percentages, table_exists, checkpoint_file, db, loaded,
                   skip_until, start, initial_progress, runs, crashes, failures,
                   insert_failed, resumed, prev_run>>
    /\ UNCHANGED <<peer, fcVars>>

\* Lines 195-211, 218-230: the full batch is upserted and committed
LoopInsert ==
    /\ Computes
    /\ batchFull(Appended)
    /\ historical_percentages' = executemany(historical_percentages, Appended)
    /\ checkpoint_file' = checkpointAfter(Cur)
    /\ batch' = <<>>
    /\ Advance
    /\ UNCHANGED <<table_exists, db, loaded, skip_until, start, initial_progress, runs,
                   crashes, failures, insert_failed, resumed, prev_run>>
    /\ UNCHANGED <<peer, fcVars>>

\* Lines 231-233: the handler rolls back; batch = [] on line 230 was not reached
batchClearedOnError(rows) == <<>>
batchAfterRollback(rows) == rows

\* Lines 195-211, 218-225, 231-233: the insert raises and is rolled back
LoopInsertFails ==
    /\ Computes
    /\ batchFull(Appended)
    /\ failures < MaxFailures
    /\ failures' = failures + 1
    /\ insert_failed' = TRUE
    /\ batch' = batchAfterRollback(Appended)
    /\ Advance
    /\ UNCHANGED <<historical_percentages, table_exists, checkpoint_file, db, loaded,
                   skip_until, start, initial_progress, runs, crashes, resumed,
                   prev_run>>
    /\ UNCHANGED <<peer, fcVars>>

\* Lines 195-211, 218-225, 231-237: the insert raises and so does the rollback
\* (the connection is gone); the outer handler writes the checkpoint
LoopInsertError ==
    /\ Computes
    /\ batchFull(Appended)
    /\ failures < MaxFailures
    /\ failures' = failures + 1
    /\ insert_failed' = TRUE
    /\ batch' = batchAfterRollback(Appended)
    /\ checkpoint_file' = checkpointAfter(Cur)
    /\ Advance
    /\ UNCHANGED <<historical_percentages, table_exists, db, loaded, skip_until, start,
                   initial_progress, runs, crashes, resumed, prev_run>>
    /\ UNCHANGED <<peer, fcVars>>

\* Lines 241-252: the remaining rows are upserted and committed
Drain ==
    /\ pc = "drain"
    /\ historical_percentages' = IF batch # <<>> THEN executemany(historical_percentages, batch)
                                 ELSE historical_percentages
    /\ pc' = "cleanup"
    /\ UNCHANGED <<table_exists, checkpoint_file, db, loaded, batch, skip_until, start,
                   initial_progress, pos, runs, crashes, failures, insert_failed, resumed, prev_run>>
    /\ UNCHANGED <<peer, fcVars>>

\* Lines 241-249, 253-255: the final insert raises and is rolled back
DrainFails ==
    /\ pc = "drain"
    /\ batch # <<>>
    /\ failures < MaxFailures
    /\ failures' = failures + 1
    /\ insert_failed' = TRUE
    /\ pc' = "cleanup"
    /\ UNCHANGED <<historical_percentages, table_exists, checkpoint_file, db, loaded, batch,
                   skip_until, start, initial_progress, pos, runs, crashes, resumed, prev_run>>
    /\ UNCHANGED <<peer, fcVars>>

\* Lines 257-263
Cleanup ==
    /\ pc = "cleanup"
    /\ checkpoint_file' = NoFile
    /\ pc' = "done"
    /\ UNCHANGED <<historical_percentages, table_exists, db, loaded, batch, skip_until,
                   start, initial_progress, pos, runs, crashes, failures, insert_failed,
                   resumed, prev_run>>
    /\ UNCHANGED <<peer, fcVars>>

\* The process is interrupted (killed, host restart): its memory is lost, the
\* table and the checkpoint file stay as they are
Interrupt ==
    /\ Running
    /\ crashes < MaxCrashes
    /\ crashes' = crashes + 1
    /\ pc' = "idle"
    /\ loaded' = 0 /\ batch' = <<>> /\ skip_until' = FALSE /\ start' = NoStart
    /\ initial_progress' = 0 /\ pos' = End
    /\ UNCHANGED <<historical_percentages, table_exists, checkpoint_file, db, runs,
                   failures, insert_failed, resumed, prev_run>>
    /\ UNCHANGED <<peer, fcVars>>

Next ==
    \/ StartRun \/ LoadFails \/ LoadEmpty \/ LoadData \/ LoadCheckpoint
    \/ LoopSkip \/ LoopInvalidDate \/ LoopZeroTotal \/ LoopAppend
    \/ LoopInsert \/ LoopInsertFails \/ LoopInsertError
    \/ Drain \/ DrainFails \/ Cleanup
    \/ Interrupt

Spec == Init /\ [][Next]_vars

\* ===========================================================================
\* main.py: the forecast service
\* ===========================================================================
\* Dates are day numbers counted from 2025-01-01 = 1
DaysInYear(y) == IF IsLeap(y) THEN 366 ELSE 365

RECURSIVE DaysBeforeYear(_)
DaysBeforeYear(y) == IF y <= 2025 THEN 0 ELSE DaysInYear(y - 1) + DaysBeforeYear(y - 1)

RECURSIVE DaysBeforeMonth(_, _)
DaysBeforeMonth(y, m) == IF m <= 1 THEN 0
                         ELSE DaysInMonth(y, m - 1) + DaysBeforeMonth(y, m - 1)

ToOrdinal(t) == DaysBeforeYear(t[1]) + DaysBeforeMonth(t[1], t[2]) + t[3]

Years == 2025..2026
CivilDates == { t \in Years \X (1..12) \X (1..31) : IsDate(t[1], t[2], t[3]) }

\* Timestamp.year, .month, .day of a day number
Civil == [n \in 1..ToOrdinal(<<2026, 12, 31>>) |->
             CHOOSE t \in CivilDates : ToOrdinal(t) = n]

\* pd.to_datetime('2025-12-31'), lines 180 and 212
Horizon == ToOrdinal(<<2025, 12, 31>>)

\* A request date is the tuple of the fields of its text: <<2025, 6, 11>> for
\* "2025-06-11"; a text of another shape has another length.
\* Line 175: pd.to_datetime(input_date, format='%Y-%m-%d') does not raise
WellFormed(text) == Len(text) = 3 /\ text[1] \in Years /\ IsDate(text[1], text[2], text[3])
to_datetime(text) == ToOrdinal(text)

\* Lines 184-185 and 191-192: SELECT DISTINCT ... FROM historical_percentages
anyBranch(table) == { NameOrder[i] : i \in DOMAIN NameOrder }
unique_branches(table)  == { r.branch : r \in table }
valid_move_types(table) == { r.move_type : r \in table }

\* Lines 201-213: start_date and end_date
forecast_window_late(now, input_date_dt) ==
    LET days_from_today == input_date_dt - now
        start_date == IF days_from_today <= 8 THEN now ELSE input_date_dt - 7
        end_date   == IF days_from_today <= 8 THEN now + 14 ELSE input_date_dt + 7
    IN  <<start_date, IF end_date > Horizon THEN Horizon ELSE end_date>>
forecast_window_unclamped(now, input_date_dt) ==
    LET days_from_today == input_date_dt - now
    IN  IF days_from_today <= 7 THEN <<now, now + 14>>
        ELSE <<input_date_dt - 7, input_date_dt + 7>>
forecast_window(now, input_date_dt) ==
    LET days_from_today == input_date_dt - now
        start_date == IF days_from_today <= 7 THEN now ELSE input_date_dt - 7
        end_date   == IF days_from_today <= 7 THEN now + 14 ELSE input_date_dt + 7
    IN  <<start_date, IF end_date > Horizon THEN Horizon ELSE end_date>>

\* The pickled predictors: yhat of a branch for a day, in halves (5 is 2.5).
\* They are fixed artefacts; predict is deterministic.
Yhat2 == <<5, 6, -4, 1, 2, 200, 15>>
predict(branch, d) == Yhat2[((d + (IF branch = "Austin" THEN 0 ELSE 3)) % 7) + 1]

\* Line 221: clip(lower=0).round().astype(int)
clip_round(yhat2) == round(IF yhat2 < 0 THEN 0 ELSE yhat2, 2)

\* Lines 215-221: the frame of the days of the window that are not before today
RECURSIVE FrameAfterToday(_, _, _, _)
FrameAfterToday(branch, d, end_date, now) ==
    IF d > end_date THEN <<>>
    ELSE (IF d > now THEN <<[Date |-> d, Count |-> clip_round(predict(branch, d))]>>
          ELSE <<>>) \o FrameAfterToday(branch, d + 1, end_date, now)
RECURSIVE Frame(_, _, _, _)
Frame(branch, d, end_date, now) ==
    IF d > end_date THEN <<>>
    ELSE (IF d >= now THEN <<[Date |-> d, Count |-> clip_round(predict(branch, d))]>>
          ELSE <<>>) \o Frame(branch, d + 1, end_date, now)

RECURSIVE RatSum(_)
RatSum(S) == IF S = {} THEN <<0, 1>>
             ELSE LET r == CHOOSE x \in S : TRUE
                  IN  RatAdd(r.avg_percentage, RatSum(S \ {r}))

\* Lines 69-105: fetch_historical_percentages; store_ok is FALSE when connect or
\* a query raises
fetch_historical_percentages(table, branch, move_type, month, day, store_ok) ==
    LET exact   == { r \in table : r.branch = branch /\ r.move_type = move_type
                                   /\ r.month = month /\ r.day = day }
        monthly == { r \in table : r.branch = branch /\ r.move_type = move_type
                                   /\ r.month = month }
    IN  IF ~store_ok THEN <<1, 1>>
        ELSE IF exact # {} THEN (CHOOSE r \in exact : TRUE).avg_percentage
        ELSE IF monthly # {}
             THEN Rat(RatSum(monthly)[1], RatSum(monthly)[2] * Cardinality(monthly))
        ELSE <<1, 1>>

Lookup(branch, move_type, month, day, store_ok) ==
    [called |-> TRUE, branch |-> branch, move_type |-> move_type, month |-> month,
     day |-> day, store_ok |-> store_ok,
     result |-> fetch_historical_percentages(historical_percentages, branch, move_type,
                                             month, day, store_ok)]

\* Lines 239-240: int(round((percentage / 100) * branch_forecast))
final_forecast_trunc(pct, branch_forecast) ==
    (pct[1] * branch_forecast) \div (pct[2] * 100)
final_forecast(pct, branch_forecast) ==
    round(pct[1] * branch_forecast, pct[2] * 100)

\* Line 253
implied_percentage(final, branch_forecast) ==
    IF branch_forecast > 0 THEN Rat(final * 100, branch_forecast) ELSE <<0, 1>>

\* Lines 256-267: the phrase list the comment is drawn from
phrases_unsigned(percentage_diff) ==
    IF RatLE(RatAbs(percentage_diff), <<5, 1>>) THEN "CONSISTENT_PHRASES"
    ELSE "WEAKER_PHRASES"
phrases(percentage_diff) ==
    IF RatLE(RatAbs(percentage_diff), <<5, 1>>) THEN "CONSISTENT_PHRASES"
    ELSE IF RatLT(<<5, 1>>, percentage_diff) THEN "STRONGER_PHRASES"
    ELSE "WEAKER_PHRASES"

\* random.choice over a list of three phrases
random_choice == (rng % 3) + 1

\* Line 224
no_move_type_floor  == <<1, 1>>
no_move_type_percentage == <<100, 1>>

Todays      == { ToOrdinal(<<2025, 2, 22>>), ToOrdinal(<<2025, 12, 21>>),
                 ToOrdinal(<<2026, 1, 5>>) }
ReqOffsets  == { -1, 0, 7, 8, 20 }
RequestDates(now) == { Civil[now + o] : o \in ReqOffsets }
                     \cup { Civil[Horizon], Civil[Horizon + 1], <<2025, 2, 30>>, <<2025, 6>> }
ReqBranches  == { "Austin", "Boston", "Waco" }
ReqMoveTypes == { None, "Local", "Labor", "Corporate" }
ModelCaches  == { {"Austin", "Boston"}, {"Boston"} }

Bad(detail) == [status_code |-> 400, error |-> "ValueError", detail |-> detail]

\* Lines 150-169: the service starts and loads the predictors
ServiceStart ==
    /\ fpc = "off"
    /\ Stopped
    /\ \E cache \in ModelCaches : model_cache' = cache
    /\ \E seed \in 0..2 : rng' = seed
    /\ fpc' = "idle"
    /\ UNCHANGED <<req, today, window, forecast, percentage, predicted_summary, totals,
                   historical_period, response, last_lookup, store_failures>>
    /\ UNCHANGED aggVars

\* Lines 333-341: a request arrives
Request ==
    /\ fpc = "idle"
    /\ \E now \in Todays :
          /\ today' = now
          /\ \E date \in RequestDates(now), branch \in ReqBranches,
                move_type \in ReqMoveTypes :
                req' = [date |-> date, branch |-> branch, move_type |-> move_type]
    /\ fpc' = "validate"
    /\ UNCHANGED <<model_cache, rng, window, forecast, percentage, predicted_summary,
                   totals, historical_period, response, last_lookup, store_failures>>
    /\ UNCHANGED aggVars

Reject(detail) ==
    /\ response' = Bad(detail)
    /\ fpc' = "done"
    /\ UNCHANGED <<req, today, model_cache, rng, window, forecast, percentage,
                   predicted_summary, totals, historical_period, last_lookup,
                   store_failures>>
    /\ UNCHANGED aggVars

DateOK     == WellFormed(req.date)
HorizonOK  == DateOK /\ ~(to_datetime(req.date) > Horizon)
BranchOK   == HorizonOK /\ req.branch \in unique_branches(historical_percentages)
MoveTypeOK == BranchOK /\ (req.move_type # None
                              => req.move_type \in valid_move_types(historical_percentages))
ModelOK    == MoveTypeOK /\ req.branch \in model_cache

\* Lines 174-177, 323-325, 343-345
RejectDateFormat == fpc = "validate" /\ ~DateOK /\ Reject("Invalid date format")
\* Lines 180-181
RejectHorizon == fpc = "validate" /\ DateOK /\ ~HorizonOK
                    /\ Reject("Date must be on or before December 31, 2025")
\* Lines 184-187
RejectBranch == fpc = "validate" /\ HorizonOK /\ ~BranchOK /\ Reject("Branch not found")
\* Lines 190-194
RejectMoveType == fpc = "validate" /\ BranchOK /\ ~MoveTypeOK /\ Reject("Invalid MoveType")
\* Lines 197-198
RejectNoModel == fpc = "validate" /\ MoveTypeOK /\ ~ModelOK
                    /\ Reject("No pre-trained model for branch")

\* Lines 201-221: the window and the raw forecast
Predict ==
    /\ fpc = "validate"
    /\ ModelOK
    /\ LET w == forecast_window(today, to_datetime(req.date))
       IN  /\ window' = w
           /\ forecast' = Frame(req.branch, w[1], w[2], today)
    /\ fpc' = "percentage"
    /\ UNCHANGED <<req, today, model_cache, rng, percentage, predicted_summary, totals,
                   historical_period, response, last_lookup, store_failures>>
    /\ UNCHANGED aggVars

\* Lines 215-217, 323-325: the window holds no day and the predictor refuses the
\* empty frame
PredictRaises ==
    /\ fpc = "validate"
    /\ ModelOK
    /\ LET w == forecast_window(today, to_datetime(req.date))
       IN  /\ w[1] > w[2]
           /\ window' = w
    /\ response' = Bad("Dataframe has no rows.")
    /\ fpc' = "done"
    /\ UNCHANGED <<req, today, model_cache, rng, forecast, percentage, predicted_summary,
                   totals, historical_period, last_lookup, store_failures>>
    /\ UNCHANGED aggVars

\* Lines 223-225, no move type
PercentageDefault ==
    /\ fpc = "percentage"
    /\ req.move_type = None
    /\ percentage' = no_move_type_percentage
    /\ fpc' = "emit"
    /\ UNCHANGED <<req, today, model_cache, rng, window, forecast, predicted_summary,
                   totals, historical_period, response, last_lookup, store_failures>>
    /\ UNCHANGED aggVars

\* Lines 223-228, with a move type: the percentage of the requested date
PercentageLookup ==
    /\ fpc = "percentage"
    /\ req.move_type # None
    /\ \E store_ok \in BOOLEAN :
          /\ store_ok \/ store_failures < MaxStoreFailures
          /\ store_failures' = IF store_ok THEN store_failures ELSE store_failures + 1
          /\ last_lookup' = Lookup(req.branch, req.move_type, req.date[2], req.date[3],
                                   store_ok)
          /\ percentage' = last_lookup'.result
    /\ fpc' = "emit"
    /\ UNCHANGED <<req, today, model_cache, rng, window, forecast, predicted_summary,
                   totals, historical_period, response>>
    /\ UNCHANGED aggVars

Row_i == forecast[Len(predicted_summary) + 1]

\* Lines 235-243, 268-275: one row of the frame, no move type
EmitDayTotal ==
    /\ fpc = "emit"
    /\ Len(predicted_summary) < Len(forecast)
    /\ req.move_type = None
    /\ LET final == final_forecast(percentage, Row_i.Count)
       IN  /\ totals' = <<totals[1] + final, totals[2] + Row_i.Count>>
           /\ predicted_summary' = Append(predicted_summary,
                  [date |-> Civil[Row_i.Date], predicted_moves |-> final,
                   comment |-> [phrases |-> "NO_MOVE_TYPE_PHRASE"]])
    /\ UNCHANGED <<fpc, req, today, model_cache, rng, window, forecast, percentage,
                   historical_period, response, last_lookup, store_failures>>
    /\ UNCHANGED aggVars

\* Lines 235-267, 271-275: one row of the frame, with a move type
EmitDayMoveType ==
    /\ fpc = "emit"
    /\ Len(predicted_summary) < Len(forecast)
    /\ req.move_type # None
    /\ \E store_ok \in BOOLEAN :
          /\ store_ok \/ store_failures < MaxStoreFailures
          /\ store_failures' = IF store_ok THEN store_failures ELSE store_failures + 1
          /\ last_lookup' = Lookup(req.branch, req.move_type, Civil[Row_i.Date][2],
                                   Civil[Row_i.Date][3], store_ok)
    /\ LET final    == final_forecast(percentage, Row_i.Count)
           hist_avg == last_lookup'.result
           implied  == implied_percentage(final, Row_i.Count)
       IN  /\ totals' = <<totals[1] + final, totals[2] + Row_i.Count>>
           /\ predicted_summary' = Append(predicted_summary,
                  [date |-> Civil[Row_i.Date], predicted_moves |-> final,
                   comment |-> [phrases |-> phrases(RatSub(implied, hist_avg)),
                                choice |-> random_choice, hist_avg |-> hist_avg,
                                current |-> implied]])
    /\ rng' = (rng + 1) % 3
    /\ UNCHANGED <<fpc, req, today, model_cache, window, forecast, percentage,
                   historical_period, response>>
    /\ UNCHANGED aggVars

\* Line 235: the frame is exhausted
EmitDone ==
    /\ fpc = "emit"
    /\ Len(predicted_summary) = Len(forecast)
    /\ fpc' = "summary"
    /\ UNCHANGED <<req, today, model_cache, rng, window, forecast, percentage,
                   predicted_summary, totals, historical_period, response, last_lookup,
                   store_failures>>
    /\ UNCHANGED aggVars

\* Lines 283-288: one day of the window for the period average
SummaryDay ==
    /\ fpc = "summary"
    /\ req.move_type # None
    /\ historical_period[2] < Len(forecast)
    /\ LET d == forecast[historical_period[2] + 1].Date
       IN  \E store_ok \in BOOLEAN :
             /\ store_ok \/ store_failures < MaxStoreFailures
             /\ store_failures' = IF store_ok THEN store_failures ELSE store_failures + 1
             /\ last_lookup' = Lookup(req.branch, req.move_type, Civil[d][2], Civil[d][3],
                                      store_ok)
    /\ historical_period' = <<RatAdd(historical_period[1], last_lookup'.result),
                              historical_period[2] + 1>>
    /\ UNCHANGED <<fpc, req, today, model_cache, rng, window, forecast, percentage,
                   predicted_summary, totals, response>>
    /\ UNCHANGED aggVars

\* Lines 277-321, 342: the summary comment and the result
Respond ==
    /\ fpc = "summary"
    /\ req.move_type # None => historical_period[2] = Len(forecast)
    /\ LET n == Len(predicted_summary)
           average_daily_moves == IF n > 0 THEN round(totals[1], n) ELSE 0
           current_percentage  == implied_percentage(totals[1], totals[2])
           historical_period_avg ==
               IF historical_period[2] > 0
               THEN Rat(historical_period[1][1], historical_period[1][2] * historical_period[2])
               ELSE percentage
           summary_comment ==
               IF req.move_type # None
               THEN [phrases |-> phrases(RatSub(current_percentage, historical_period_avg)),
                     choice |-> random_choice, hist_avg |-> historical_period_avg,
                     current_year |-> current_percentage]
               ELSE [phrases |-> "SUMMARY_NO_MOVE_TYPE"]
       IN  response' = [status_code |-> 200,
                        branch |-> req.branch, move_type |-> req.move_type,
                        forecast_window |-> [start_date |-> window[1], end_date |-> window[2]],
                        predicted_summary |-> predicted_summary,
                        total_predicted_moves |-> totals[1],
                        average_daily_moves |-> average_daily_moves,
                        summary_comment |-> summary_comment]
    /\ fpc' = "done"
    /\ UNCHANGED <<req, today, model_cache, rng, window, forecast, percentage,
                   predicted_summary, totals, historical_period, last_lookup,
                   store_failures>>
    /\ UNCHANGED aggVars

\* The batch job runs once, undisturbed, before the service starts
BatchJob ==
    /\ fpc = "off"
    /\ \/ StartRun \/ LoadEmpty \/ LoadData \/ LoadCheckpoint
       \/ LoopInvalidDate \/ LoopZeroTotal \/ LoopAppend \/ LoopInsert
       \/ Drain \/ Cleanup
    /\ runs' <= 1

NextForecast ==
    \/ BatchJob
    \/ ServiceStart \/ Request
    \/ RejectDateFormat \/ RejectHorizon \/ RejectBranch \/ RejectMoveType \/ RejectNoModel
    \/ Predict \/ PredictRaises \/ PercentageDefault \/ PercentageLookup
    \/ EmitDayTotal \/ EmitDayMoveType \/ EmitDone \/ SummaryDay \/ Respond

SpecForecast == Init /\ [][NextForecast]_vars

\* ===========================================================================
\* The batch job: properties
\* ===========================================================================
InvalidDays == { <<2, 29>>, <<2, 30>>, <<2, 31>>, <<4, 31>>, <<6, 31>>, <<9, 31>>, <<11, 31>> }

\* Counts taken from the raw records of data set k
CategoryCount(k, b, t, m, d) ==
    SumCount({ r \in move_df(k) : r.Branch = b /\ r.MoveType = t /\ r.Date[2] = m
                                  /\ r.Date[3] = d })
TotalCount(k, b, m, d) ==
    SumCount({ r \in historical_df(k) : r.Branch = b /\ r.Date[2] = m /\ r.Date[3] = d })

\* The keys a run over data set k has to fill
Qualifying == [k \in DOMAIN DataSets |->
    { c \in { <<b, t, m, d>> : b \in { r.Branch : r \in move_df(k) },
                               t \in { r.MoveType : r \in move_df(k) },
                               m \in 1..12, d \in 1..31 } :
        <<c[3], c[4]>> \notin InvalidDays /\ TotalCount(k, c[1], c[3], c[4]) > 0 }]

\* The table one uninterrupted run over data set k builds from an empty table
FreshRunTable == [k \in DOMAIN DataSets |->
    { Row(c[1], c[2], c[3], c[4],
          Rat(100 * CategoryCount(k, c[1], c[2], c[3], c[4]), TotalCount(k, c[1], c[3], c[4])))
      : c \in Qualifying[k] }]

C2_CompletedRunHoldsEveryRow ==
    (pc = "done" /\ ~insert_failed)
        => \A c \in Qualifying[loaded] :
              \E r \in historical_percentages :
                  /\ Key(r) = c
                  /\ r.avg_percentage[1] * TotalCount(loaded, c[1], c[3], c[4])
                       = 100 * CategoryCount(loaded, c[1], c[2], c[3], c[4])
                         * r.avg_percentage[2]

UniqueKeys == \A r1, r2 \in historical_percentages : Key(r1) = Key(r2) => r1 = r2

\* C3 (as claimed): two runs to completion in a row over the same source data leave
\* the same table contents, and no key is ever held by two rows.  Stated for runs
\* without any failing insert.
C3_Idempotent ==
    /\ UniqueKeys
    /\ (pc = "done" /\ prev_run.complete /\ prev_run.data = loaded
        /\ ~insert_failed /\ ~prev_run.insert_failed)
          => historical_percentages = prev_run.table

\* C10: in every reachable state no row of the table has a (month, day) that is
\* not a calendar day of a non-leap year.
C10_NoInvalidDayRow ==
    \A r \in historical_percentages :
        /\ r.month \in 1..12 /\ r.day \in 1..31
        /\ <<r.month, r.day>> \notin InvalidDays

\* A run over a source with records on Feb 29 (2024) has written its rows
C10_Witness ==
    /\ pc = "done"
    /\ \E r \in move_df(loaded) : r.Date[2] = 2 /\ r.Date[3] = 29
    /\ TotalCount(loaded, "Austin", 2, 29) > 0
    /\ \E r \in historical_percentages : r.month = 3 /\ r.branch = "Austin"

\* ===========================================================================
\* The forecast service: properties
\* ===========================================================================
Answered == fpc = "done" /\ response.status_code = 200
Entries  == DOMAIN predicted_summary

\* v is n / d rounded to the nearest integer, a half going to the even neighbour
IsRounded(v, n, d) ==
    /\ 2 * Abs(v * d - n) <= d
    /\ (2 * Abs(v * d - n) = d => v % 2 = 0)

\* The row of the frame an emitted day was computed from
RawOf(i) == forecast[i].Count

\* C4 (as claimed): with a move type, every emitted day's predicted_moves is
\* round(R * P / 100), R the raw count of that day and P the percentage looked up
\* for that same day's (month, day).  Stated for requests none of whose lookups
\* met a store error.
C4_BlendUsesDayPercentage ==
    (req.move_type # None /\ store_failures = 0) =>
        \A i \in Entries :
            LET e == predicted_summary[i]
            IN  IsRounded(e.predicted_moves, RawOf(i) * e.comment.hist_avg[1],
                          100 * e.comment.hist_avg[2])

\* C4 (amended): with a move type, every emitted day's predicted_moves is
\* round(R * P / 100), R the raw count of that same day and P the one percentage
\* looked up for the requested date's (month, day).
C4_BlendUsesRequestPercentage ==
    /\ (fpc = "emit" /\ req.move_type # None /\ predicted_summary = <<>>)
          => /\ last_lookup.called
             /\ last_lookup.branch = req.branch /\ last_lookup.move_type = req.move_type
             /\ last_lookup.month = req.date[2] /\ last_lookup.day = req.date[3]
             /\ percentage = last_lookup.result
    /\ req.move_type # None =>
          \A i \in Entries :
              LET e == predicted_summary[i]
              IN  /\ e.date = Civil[forecast[i].Date]
                  /\ IsRounded(e.predicted_moves, RawOf(i) * percentage[1],
                               100 * percentage[2])

\* A day whose own percentage differs from the requested date's and whose count
\* shows it: raw 100, requested date at 100%, the day itself at 50%
C4_Witness ==
    /\ Answered /\ req.move_type # None
    /\ \E i \in Entries :
          /\ RawOf(i) = 100
          /\ predicted_summary[i].predicted_moves = 100
          /\ predicted_summary[i].comment.hist_avg = <<50, 1>>
          /\ percentage = <<100, 1>>

\* C5: the window is [today, today + 14] when the requested date is at most 7 days
\* after today, else [date - 7, date + 7], the end clamped to the horizon: a
\* request for today + 7 gives [today, today + 14], one for today + 8 gives
\* [today + 1, today + 15]; the answer reports that window.
C5_WindowRule ==
    fpc \in {"percentage", "emit", "summary", "done"} /\ window # <<0, 0>> =>
        LET d == ToOrdinal(req.date) IN
        /\ d - today <= 7 => window = <<today, Min(today + 14, Horizon)>>
        /\ d - today > 7  => window = <<d - 7, Min(d + 7, Horizon)>>
        /\ d = today + 7  => window = <<today, Min(today + 14, Horizon)>>
        /\ d = today + 8  => window = <<today + 1, Min(today + 15, Horizon)>>
        /\ Answered => /\ response.forecast_window.start_date = window[1]
                       /\ response.forecast_window.end_date = window[2]

\* An answered request for today + 8, unclamped
C5_Witness ==
    /\ Answered
    /\ ToOrdinal(req.date) = today + 8
    /\ window = <<today + 1, today + 15>>

C5_WitnessClamped ==
    /\ Answered
    /\ ToOrdinal(req.date) = today + 7
    /\ window = <<today, Horizon>> /\ Horizon < today + 14

BadDate     == ~(Len(req.date) = 3 /\ req.date \in CivilDates)
BadHorizon  == ~BadDate /\ ToOrdinal(req.date) > ToOrdinal(<<2025, 12, 31>>)
BadBranch   == \A r \in historical_percentages : r.branch # req.branch
BadMoveType == req.move_type # None
               /\ \A r \in historical_percentages : r.move_type # req.move_type

\* C6: a call with a malformed date, a date after the horizon, a branch without
\* seasonal data or an unknown move type never gets past validation: no
\* percentage is looked up, nothing is forecast, and it ends in the validation
\* error.
C6_InvalidRequestRejected ==
    (fpc \in {"validate", "percentage", "emit", "summary", "done"}
     /\ (BadDate \/ BadHorizon \/ BadBranch \/ BadMoveType))
       => /\ fpc \in {"validate", "done"}
          /\ last_lookup = NoLookup
          /\ forecast = <<>> /\ predicted_summary = <<>>
          /\ fpc = "done" => /\ response.status_code = 400
                             /\ response.error = "ValueError"
          /\ fpc = "validate" => ENABLED (RejectDateFormat \/ RejectHorizon
                                          \/ RejectBranch \/ RejectMoveType)
          /\ fpc = "validate" => ~ENABLED (Predict \/ PredictRaises \/ RejectNoModel)

\* An unknown move type for a known branch that has a predictor was refused
C6_Witness ==
    /\ fpc = "done"
    /\ ~BadDate /\ ~BadHorizon /\ ~BadBranch /\ BadMoveType
    /\ req.branch \in model_cache
    /\ response.status_code = 400

ExactRows(l) == { r \in historical_percentages :
                    r.branch = l.branch /\ r.move_type = l.move_type
                    /\ r.month = l.month /\ r.day = l.day }
MonthRows(l) == { r \in historical_percentages :
                    r.branch = l.branch /\ r.move_type = l.move_type /\ r.month = l.month }

\* C7 (as claimed): a lookup returns the exact-day row's value when there is one,
\* else the mean of the month's rows when there are any, else 1.0; 1.0 as the
\* floor only when neither exists.
C7_LookupTiers ==
    last_lookup.called =>
        LET l == last_lookup IN
        /\ ExactRows(l) # {} => \E r \in ExactRows(l) : l.result = r.avg_percentage
        /\ (ExactRows(l) = {} /\ MonthRows(l) # {})
              => l.result = Rat(RatSum(MonthRows(l))[1],
                                RatSum(MonthRows(l))[2] * Cardinality(MonthRows(l)))
        /\ MonthRows(l) = {} => l.result = <<1, 1>>

\* C8: without a move type every emitted day carries that day's raw count and the
\* fixed notice, and total_predicted_moves is the sum of the days.
C8_NoMoveType ==
    (Answered /\ req.move_type = None) =>
        /\ Len(response.predicted_summary) = Len(forecast)
        /\ \A i \in DOMAIN response.predicted_summary :
              LET e == response.predicted_summary[i]
              IN  /\ e.date = Civil[forecast[i].Date]
                  /\ e.predicted_moves = forecast[i].Count
                  /\ e.comment = [phrases |-> "NO_MOVE_TYPE_PHRASE"]
        /\ response.total_predicted_moves
             = SumSeq([i \in DOMAIN response.predicted_summary |->
                          response.predicted_summary[i].predicted_moves])

C8_Witness ==
    /\ Answered /\ req.move_type = None
    /\ Len(response.predicted_summary) = 15
    /\ \E i \in DOMAIN response.predicted_summary :
          response.predicted_summary[i].predicted_moves = 100
    /\ response.total_predicted_moves > 100

\* C9: with a move type each day's comment is drawn from exactly one phrase list,
\* fixed by diff = implied - historical, implied = 100 * predicted / raw (0 when
\* raw is 0): consistent iff |diff| <= 5, stronger iff diff > 5, weaker iff
\* diff < -5; raw 100, predicted 100, historical 50 gives stronger.
C9_CommentTier ==
    req.move_type # None =>
        \A i \in Entries :
            LET e    == predicted_summary[i]
                c    == e.comment
                \* diff = num / den with den > 0
                num  == c.current[1] * c.hist_avg[2] - c.hist_avg[1] * c.current[2]
                den  == c.current[2] * c.hist_avg[2]
            IN  /\ c.phrases \in {"CONSISTENT_PHRASES", "STRONGER_PHRASES", "WEAKER_PHRASES"}
                /\ IF RawOf(i) > 0
                   THEN c.current[1] * RawOf(i) = 100 * e.predicted_moves * c.current[2]
                   ELSE c.current[1] = 0
                /\ (c.phrases = "CONSISTENT_PHRASES") <=> (Abs(num) <= 5 * den)
                /\ (c.phrases = "STRONGER_PHRASES")   <=> (num > 5 * den)
                /\ (c.phrases = "WEAKER_PHRASES")     <=> (num < -5 * den)
                /\ (RawOf(i) = 100 /\ e.predicted_moves = 100 /\ c.hist_avg = <<50, 1>>)
                      => c.phrases = "STRONGER_PHRASES"

C9_Witness ==
    /\ req.move_type # None
    /\ \E i \in Entries :
          /\ RawOf(i) = 100 /\ predicted_summary[i].predicted_moves = 100
          /\ predicted_summary[i].comment.hist_avg = <<50, 1>>
          /\ predicted_summary[i].comment.phrases = "STRONGER_PHRASES"
    /\ \E i \in Entries : predicted_summary[i].comment.phrases = "WEAKER_PHRASES"
    /\ \E i \in Entries : predicted_summary[i].comment.phrases = "CONSISTENT_PHRASES"

\* C11 (as claimed): a request that passes validation for a branch without a
\* predictor ends in an error whose kind and status differ from those of a
\* validation error (a bad date, an unknown branch).
C11_ModelUnavailableDistinct ==
    (fpc = "done" /\ MoveTypeOK /\ req.branch \notin model_cache)
        => /\ response.status_code # 200
           /\ ~(response.status_code = Bad("").status_code
                /\ response.error = Bad("").error)

\* ===========================================================================
\* The batch job: checkpoints and failures
\* ===========================================================================
IndexOf(seq, x) == CHOOSE i \in DOMAIN seq : seq[i] = x

\* The place of a checkpoint c in the iteration order of data set k, counted as
\* Before counts the loop positions
CheckpointIndex(k, c) ==
    (((IndexOf(branches[k], c.branch) - 1) * Len(move_types[k])
      + (IndexOf(move_types[k], c.move_type) - 1)) * 12 + (c.month - 1)) * 31 + (c.day - 1)

\* One iteration of the main loop, the process not being interrupted
LoopStep == pc = "loop" /\ pc' \in {"loop", "drain"}

\* C12 (as claimed): in a run that found a checkpoint, an iteration for a
\* combination strictly before the checkpoint appends nothing to the batch and
\* writes nothing to the table, and from the checkpoint combination on every
\* combination is processed (its row is appended when its day is valid and its
\* total_count is positive).
C12_SkipsBeforeCheckpoint ==
    [][(LoopStep /\ resumed)
          => IF Before(loaded, pos) < CheckpointIndex(loaded, start)
             THEN batch' = batch /\ historical_percentages' = historical_percentages
             ELSE (isValidDay(Cur.month, Cur.day)
                   /\ total_count(loaded, Cur.branch, Cur.month, Cur.day) > 0)
                     => \E r \in { batch'[i] : i \in DOMAIN batch' }
                                    \cup historical_percentages' :
                            Key(r) = <<Cur.branch, Cur.move_type, Cur.month, Cur.day>>]_vars

\* The combination a checkpoint file names
Named(f) == [branch |-> f.branch, move_type |-> f.move_type, month |-> f.month,
             day |-> f.day]

\* An iteration that upserted and committed the batch
CommitStep == LoopStep /\ Computes /\ batch' = <<>>

\* C13 (as claimed): the checkpoint written after a committed batch names the
\* combination that follows the one just processed in the iteration order, a
\* member of the enumerated product, also when the day just processed is 31.
\* Stated for every commit but the one at the very last combination, which has no
\* successor.
C13_CheckpointIsNextCombination ==
    [][(CommitStep /\ NextPos(loaded, pos) # End)
          => /\ checkpoint_file'.exists
             /\ Named(checkpoint_file') = Combination(loaded, NextPos(loaded, pos))
             /\ \E p \in Enumerated(loaded) :
                    Combination(loaded, p) = Named(checkpoint_file')]_vars

\* Every row waiting in the batch for a combination before the checkpoint on disk
\* is in the table
CheckpointCovered ==
    checkpoint_file.exists =>
        \A i \in DOMAIN batch :
            CheckpointIndex(loaded, batch[i]) < CheckpointIndex(loaded, Named(checkpoint_file))
                => batch[i] \in historical_percentages

\* An insert (of a full batch or of the final batch) raised
FailedInsert == pc \in {"loop", "drain"} /\ failures' = failures + 1

\* C14 (as claimed): whenever a checkpoint is on disk, every row computed for a
\* combination before it is committed, and a failed batch insert leaves the
\* checkpoint file as it was.
C14_CheckpointBehindCommits ==
    [][CheckpointCovered' /\ (FailedInsert => checkpoint_file' = checkpoint_file)]_vars

\* C15 (as claimed): the checkpoint file is removed only at the end of a run whose
\* enumeration is complete and whose computed rows, those of the final partial
\* batch included, are all committed.
C15_DeleteOnlyAfterFullCommit ==
    [][(checkpoint_file.exists /\ ~checkpoint_file'.exists)
          => /\ pc = "cleanup" /\ pos = End
             /\ \A i \in DOMAIN batch : batch[i] \in historical_percentages]_vars

\* The final insert succeeded
DrainStep == pc = "drain" /\ pc' = "cleanup" /\ failures' = failures

\* C16: an insert that fails writes nothing and keeps every row of the batch in
\* memory; rows leave the batch only through a commit; and every insert that
\* succeeds, in the loop or at the drain, writes every row the batch holds, so the
\* rows of a failed batch are written by the next insert that succeeds.
C16_FailedBatchRetried ==
    [][/\ (LoopStep /\ failures' = failures + 1)
            => /\ historical_percentages' = historical_percentages
               /\ Len(batch') = Len(batch) + 1
       /\ (LoopStep /\ ~CommitStep)
            => /\ Len(batch') >= Len(batch)
               /\ SubSeq(batch', 1, Len(batch)) = batch
       /\ (CommitStep \/ DrainStep)
            => \A i \in DOMAIN batch : batch[i] \in historical_percentages']_vars

\* The insert at the end of January failed; its two rows were written together
\* with the next row by the insert that followed
C16_Witness ==
    /\ pc = "loop" /\ runs = 1 /\ crashes = 0
    /\ insert_failed /\ batch = <<>>
    /\ Cardinality(historical_percentages) = batch_size + 1
    /\ \E r \in historical_percentages : r.month = 1 /\ r.day = 30

\* An iteration whose processing raised into the outer handler, which wrote the
\* checkpoint
ErrorStep == pc = "loop" /\ failures' = failures + 1 /\ checkpoint_file' # checkpoint_file

\* C17 (as claimed): when the processing of a combination raises, the checkpoint
\* written names the next combination of the iteration order and the loop goes on
\* with that combination; the run is not aborted.
C17_ErrorCheckpointsNextAndContinues ==
    [][ErrorStep
          => /\ pc' \in {"loop", "drain"}
             /\ pos' = NextPos(loaded, pos)
             /\ NextPos(loaded, pos) # End
                   => /\ checkpoint_file'.exists
                      /\ Named(checkpoint_file')
                           = Combination(loaded, NextPos(loaded, pos))]_vars

\* ===========================================================================
\* Runs over changing source data
\* ===========================================================================
\* Between two runs the source tables historical_df and move_df are rewritten
SourceChanges ==
    /\ pc \in {"done", "aborted"}
    /\ runs < MaxRuns
    /\ db' \in DOMAIN DataSets \ {db}
    /\ UNCHANGED <<historical_percentages, table_exists, checkpoint_file, pc, loaded, batch,
                   skip_until, start, initial_progress, pos, runs, crashes, failures,
                   insert_failed, resumed, prev_run>>
    /\ UNCHANGED <<peer, fcVars>>

\* Undisturbed runs of the batch job, the source data changing between them
NextRebuild ==
    \/ SourceChanges
    \/ StartRun \/ LoadEmpty \/ LoadData \/ LoadCheckpoint
    \/ LoopInvalidDate \/ LoopZeroTotal \/ LoopAppend \/ LoopInsert
    \/ Drain \/ Cleanup

SpecRebuild == Init /\ [][NextRebuild]_vars

\* C18 (as claimed): after a completed run the table is the one the run's source
\* data alone determines; no row is left for a key that does not qualify in it.
C18_FullyRebuilt ==
    pc = "done" => /\ historical_percentages = FreshRunTable[loaded]
                   /\ \A r \in historical_percentages : Key(r) \in Qualifying[loaded]

\* C18 (amended): a run never removes a row.  Every row of the table stays as it
\* is, or is overwritten with the percentage the run computes for its key, a key
\* that qualifies in the run's source data; a row an earlier run wrote for a key
\* that no longer qualifies is still there after the run.
C18_RowsOnlyUpserted ==
    [][\A r \in historical_percentages :
          \/ r \in historical_percentages'
          \/ /\ loaded # 0
             /\ Key(r) \in Qualifying[loaded]
             /\ \E r2 \in historical_percentages' :
                   /\ Key(r2) = Key(r)
                   /\ r2 \in FreshRunTable[loaded]]_vars

\* A run over new source data has completed and the table still holds a row of
\* the previous run whose key does not qualify any more
C18_Witness ==
    /\ pc = "done"
    /\ prev_run.complete /\ prev_run.data # loaded
    /\ \E r \in prev_run.table :
          Key(r) \notin Qualifying[loaded] /\ r \in historical_percentages
    /\ \E r \in historical_percentages : Key(r) \in Qualifying[loaded]

\* C19 (as claimed): a forecast call one of whose percentage lookups met a store
\* failure ends in a failure: it answers no forecast.  Stated for calls whose
\* window holds at least one day.
C19_StoreFailureSurfaced ==
    (fpc = "done" /\ store_failures > 0 /\ forecast # <<>>)
        => /\ response.status_code # 200
           /\ "predicted_summary" \notin DOMAIN response

\* C20 (as claimed): with a move type, the comment of an emitted day that has
\* neither an exact-day row nor any row of its month compares against the
\* requested date's own percentage, not against the floor 1.0.  Stated for calls
\* none of whose lookups met a store error.
C20_CommentaryLastResort ==
    (req.move_type # None /\ store_failures = 0) =>
        \A i \in Entries :
            LET d == Civil[forecast[i].Date]
                l == [branch |-> req.branch, move_type |-> req.move_type,
                      month |-> d[2], day |-> d[3]]
            IN  (ExactRows(l) = {} /\ MonthRows(l) = {})
                    => predicted_summary[i].comment.hist_avg = percentage

\* ===========================================================================
\* The forecast service: the emitted days
\* ===========================================================================
\* The day numbers of the emitted entries
EmittedDays == { ToOrdinal(predicted_summary[i].date) : i \in Entries }

\* C21: every emitted day is on or after today and on or before the horizon,
\* whatever the accepted request date and today are, and the answer carries
\* exactly the emitted days.
C21_EmittedDaysInRange ==
    /\ \A d \in EmittedDays : today <= d /\ d <= Horizon
    /\ Answered => response.predicted_summary = predicted_summary

\* A window cut by the horizon: the first emitted day is today, the last one is
\* the horizon, and today + 14 lies beyond it
C21_Witness ==
    /\ Answered
    /\ today + 14 > Horizon
    /\ today \in EmittedDays /\ Horizon \in EmittedDays
    /\ Cardinality(EmittedDays) = Horizon - today + 1

\* ===========================================================================
\* The batch job: zero totals, aborted loads, two instances
\* ===========================================================================
\* C22: no row is ever in the batch or in the table for a key whose branch has a
\* total of 0, or no record at all, on that (month, day) in the source data; every
\* row that is there carries a number.
C22_NoRowForZeroTotal ==
    \A r \in historical_percentages \cup { batch[i] : i \in DOMAIN batch } :
        /\ TotalCount(db, r.branch, r.month, r.day) > 0
        /\ r.avg_percentage[2] > 0

\* A run has completed over source data that records a total of 0 for an
\* enumerated day, and has written its other rows
C22_Witness ==
    /\ pc = "done" /\ loaded = db
    /\ \E r \in historical_df(db) :
          /\ isValidDay(r.Date[2], r.Date[3])
          /\ r.Branch \in { m.Branch : m \in move_df(db) }
          /\ TotalCount(db, r.Branch, r.Date[2], r.Date[3]) = 0
    /\ historical_percentages = FreshRunTable[db]

\* A step of the part of a run that precedes the enumeration: the table set-up
\* (lines 26-79) or the end of the load (lines 93-139)
BeforeEnumeration == (pc' = "load" /\ pc # "load") \/ pc = "load"

\* C24: when a source extract is empty or the load raises, the run aborts before
\* the enumeration starts; from its start to its abort no row is written, the
\* rows of a non-empty table stay as they are and the checkpoint file is neither
\* written nor deleted. A run whose extract is empty never goes on.
C24_AbortBeforeEnumeration ==
    [][/\ BeforeEnumeration =>
             /\ historical_percentages' = historical_percentages
             /\ checkpoint_file' = checkpoint_file
             /\ batch' = <<>> /\ pos' = End
       /\ (pc = "load" /\ (historical_df(db) = {} \/ move_df(db) = {})) =>
             pc' \in {"aborted", "idle"}
       /\ pc' = "aborted" => pc = "load" /\ loaded = 0]_vars

\* An aborted run that found rows in the table and a checkpoint on disk
C24_Witness ==
    /\ pc = "aborted"
    /\ historical_percentages # {}
    /\ checkpoint_file.exists
    /\ crashes > 0

\* C25 (as claimed): a call that passes every validation step is answered with a
\* per-day list that is not empty and a forecast_window whose start_date is not
\* after its end_date, wherever today lies relative to the horizon
C25_NonEmptyForecast ==
    (fpc = "done" /\ ModelOK) =>
        /\ Answered
        /\ response.predicted_summary # <<>>
        /\ response.forecast_window.start_date <= response.forecast_window.end_date

\* C26: when an accepted request asks for a day that is not before today, the
\* answer's per-day list holds that very day, in the near branch of the window
\* rule, in the far branch and after the end is clamped to the horizon
C26_RequestedDayEmitted ==
    (Answered /\ to_datetime(req.date) >= today) =>
        \E i \in DOMAIN response.predicted_summary :
            ToOrdinal(response.predicted_summary[i].date) = to_datetime(req.date)

\* An answered request for today itself, whose window is cut at the horizon
C26_Witness ==
    /\ Answered
    /\ to_datetime(req.date) = today
    /\ today + 14 > Horizon
    /\ response.forecast_window.end_date = Horizon
    /\ to_datetime(req.date) \in EmittedDays

\* An answered request of the far branch, whose window is cut at the horizon
C26_WitnessFar ==
    /\ Answered
    /\ to_datetime(req.date) - today > 7
    /\ to_datetime(req.date) + 7 > Horizon
    /\ response.forecast_window = [start_date |-> to_datetime(req.date) - 7,
                                   end_date |-> Horizon]
    /\ to_datetime(req.date) \in EmittedDays

\* ===========================================================================
\* Two instances of the script at once
\* ===========================================================================
\* Both instances use the same database and the same checkpoint.json. The
\* variables pc .. resumed are those of the instance that steps next, peer
\* holds those of the other one. The statements of the table set-up are
\* separate steps here: another connection can commit between them.

\* Lines 36-47: the table is looked up and its rows are counted
CheckTable ==
    /\ pc = "idle"
    /\ runs' = runs + 1
    /\ pc' = IF ~table_exists THEN "create"
             ELSE IF historical_percentages # {} THEN "reuse" ELSE "recreate"
    /\ UNCHANGED <<historical_percentages, table_exists, checkpoint_file, db, loaded, batch,
                   skip_until, start, initial_progress, pos, crashes, failures,
                   insert_failed, resumed, prev_run>>
    /\ UNCHANGED <<peer, fcVars>>

\* Lines 47-48, 66: row_count > 0, the table is kept
ReuseTable ==
    /\ pc = "reuse"
    /\ pc' = "load"
    /\ UNCHANGED <<historical_percentages, table_exists, checkpoint_file, db, loaded, batch,
                   skip_until, start, initial_progress, pos, runs, crashes, failures,
                   insert_failed, resumed, prev_run>>
    /\ UNCHANGED <<peer, fcVars>>

\* Lines 49-66: row_count was 0; DROP TABLE, CREATE TABLE, commit
RecreateTable ==
    /\ pc = "recreate"
    /\ historical_percentages' = {}
    /\ table_exists' = TRUE
    /\ pc' = "load"
    /\ UNCHANGED <<checkpoint_file, db, loaded, batch, skip_until, start, initial_progress,
                   pos, runs, crashes, failures, insert_failed, resumed, prev_run>>
    /\ UNCHANGED <<peer, fcVars>>

\* Lines 54-66: the table was missing; CREATE TABLE, commit
CreateTable ==
    /\ pc = "create"
    /\ ~table_exists
    /\ table_exists' = TRUE
    /\ pc' = "load"
    /\ UNCHANGED <<historical_percentages, checkpoint_file, db, loaded, batch, skip_until,
                   start, initial_progress, pos, runs, crashes, failures, insert_failed,
                   resumed, prev_run>>
    /\ UNCHANGED <<peer, fcVars>>

\* Lines 54-69: the table was missing and has been created since; CREATE TABLE
\* raises and the script ends
CreateTableFails ==
    /\ pc = "create"
    /\ table_exists
    /\ pc' = "aborted"
    /\ UNCHANGED <<historical_percentages, table_exists, checkpoint_file, db, loaded, batch,
                   skip_until, start, initial_progress, pos, runs, crashes, failures,
                   insert_failed, resumed, prev_run>>
    /\ UNCHANGED <<peer, fcVars>>

\* The next statement of the instance reads or writes the table or the
\* checkpoint file. Every other statement touches the instance's memory only
\* and commutes with the steps of the other instance.
AtSharedAccess ==
    \/ pc \in {"idle", "recreate", "create", "checkpoint", "drain", "cleanup"}
    \/ Computes /\ batchFull(Appended)

\* The other instance steps next
Switch ==
    /\ AtSharedAccess \/ pc \in {"done", "aborted"}
    /\ peer.pc \notin {"done", "aborted"}
    /\ peer' = Process
    /\ pc' = peer.pc
    /\ loaded' = peer.loaded
    /\ batch' = peer.batch
    /\ skip_until' = peer.skip_until
    /\ start' = peer.start
    /\ initial_progress' = peer.initial_progress
    /\ pos' = peer.pos
    /\ insert_failed' = peer.insert_failed
    /\ resumed' = peer.resumed
    /\ UNCHANGED <<historical_percentages, table_exists, checkpoint_file, db, runs, crashes,
                   failures, prev_run>>
    /\ UNCHANGED fcVars

\* Two instances, started at any time, neither interrupted nor meeting a
\* failing insert
NextConcurrent ==
    \/ CheckTable \/ ReuseTable \/ RecreateTable \/ CreateTable \/ CreateTableFails
    \/ Switch
    \/ LoadEmpty \/ LoadData \/ LoadCheckpoint
    \/ LoopSkip \/ LoopInvalidDate \/ LoopZeroTotal \/ LoopAppend \/ LoopInsert
    \/ Drain \/ Cleanup

SpecConcurrent == Init /\ [][NextConcurrent]_vars

BothCompleted == pc = "done" /\ peer.pc = "done"

\* C23 (as claimed): two instances run at once over the same source data and
\* the same table; whatever the order of their commits, once both have
\* completed the table is the one a single run builds
C23_ConcurrentEqualsSingle ==
    BothCompleted => historical_percentages = FreshRunTable[db]

\* What the two instances do guarantee: when neither of them skipped the whole
\* enumeration on a checkpoint it could not match, the table is complete
ConcurrentCompleteUnlessSkipped ==
    (BothCompleted /\ ~skip_until /\ ~peer.skip_until)
        => historical_percentages = FreshRunTable[db]

====
